---- MODULE Spec2Model ----
(***************************************************************************)
(* Model of the medical-telegram-warehouse ingestion and enrichment        *)
(* pipeline: the Dagster job (pipeline.py), the channel scraper            *)
(* (src/scraper.py), the raw loader (src/load_raw_to_postgres.py), the     *)
(* image scanner (src/yolo_detect.py) and the detection loader             *)
(* (src/load_yolo_to_postgres.py).                                         *)
(*                                                                         *)
(* Each component is a separate program (a script or a Dagster job), so    *)
(* each has its own specification over the shared variable tuple; the      *)
(* variables of the other components stay at their initial values.         *)
(***************************************************************************)
EXTENDS Integers, Sequences, FiniteSets, TLC

VARIABLES
    \* ---- pipeline.py: one run of telegram_warehouse_job
    opState,        \* op -> "pending" | "running" | "success" | "failure"
    opCmd,          \* op -> index of the command the op is at
    cmdRunning,     \* op -> TRUE while subprocess.run of its command is in progress
    invoked,        \* the commands started so far, in start order
    exits           \* command -> <<>> (not finished) or <<returncode>>

pipeVars == <<opState, opCmd, cmdRunning, invoked, exits>>

VARIABLES
    \* ---- src/scraper.py: one run of run_scraper
    channels,       \* parse_channels(TELEGRAM_CHANNELS)
    args,           \* [limit, since, until], each None or Some(value)
    chanIdx,        \* position of the for loop over channels
    scrapePc,       \* "next" | "iter" | "done" | "failed"
    failedIn,       \* the phase the run failed in, "" while it has not
    fetched,        \* messages iter_messages has yielded for the channel, in order
    accepted,       \* those of them that passed the filters, in order
    records_by_day, \* the dict of scrape_channel, as <<[path, records]>> in insertion order
    files,          \* partition files on disk: path -> payload
    filesBefore,    \* the files on disk when the channel's scrape began
    written,        \* paths the channel's scrape has written
    imagesOnDisk,   \* downloaded image paths
    fetchedTotal    \* messages yielded in the whole run

scrapeVars ==
    <<channels, args, chanIdx, scrapePc, failedIn, fetched, accepted,
      records_by_day, files, filesBefore, written, imagesOnDisk,
      fetchedTotal>>

VARIABLES
    \* ---- src/load_raw_to_postgres.py and src/load_yolo_to_postgres.py
    databaseUrl,    \* whether DATABASE_URL is set
    lake,           \* the *.json files under DATA_LAKE_PATH/telegram_messages
    csvFile,        \* the file at YOLO_OUTPUT_CSV
    db,             \* the committed state of the database
    tx,             \* the open transaction's view of the database, None if none
    call,           \* the main() in progress: [loader, pc]
    fileIdx,        \* position of the for loop over json_files
    lastCall,       \* how the last main() ended: [loader, outcome, at]
    dbBefore,       \* the committed state when the last main() began
    connects,       \* loader -> number of engine.begin() connections it opened
    runsOk,         \* loader -> number of its calls that committed
    calls           \* number of main() calls so far

loadVars ==
    <<databaseUrl, lake, csvFile, db, tx, call, fileIdx, lastCall, dbBefore,
      connects, runsOk, calls>>

VARIABLES
    \* ---- src/yolo_detect.py: one run of main
    imageFiles,     \* scan_images(images_root): the *.jpg paths found
    outputCsv,      \* the lines of the file at YOLO_OUTPUT_CSV, None if absent
    scanPc,         \* "start" | "scanning" | "done" | "failed" | "failed_load"
    scanIdx         \* position of the for loop over the images

scanVars == <<imageFiles, outputCsv, scanPc, scanIdx>>

VARIABLES
    \* ---- categorize_image applied to two label lists
    catInput,       \* the first list of detected classes
    catVariant,     \* the second list of detected classes
    catOut          \* <<>> or the categories of the two lists

catVars == <<catInput, catVariant, catOut>>

VARIABLES
    \* ---- the partition key resolved for messages of one channel
    pkChannel,      \* the channel name
    pkMsgs,         \* the messages resolved so far
    pkPaths         \* the partition path of each

pkVars == <<pkChannel, pkMsgs, pkPaths>>

vars == <<pipeVars, scrapeVars, loadVars, scanVars, catVars, pkVars>>

nonPipeVars == <<scrapeVars, loadVars, scanVars, catVars, pkVars>>
nonScrapeVars == <<pipeVars, loadVars, scanVars, catVars, pkVars>>
nonLoadVars == <<pipeVars, scrapeVars, scanVars, catVars, pkVars>>
nonScanVars == <<pipeVars, scrapeVars, loadVars, catVars, pkVars>>
nonCatVars == <<pipeVars, scrapeVars, loadVars, scanVars, pkVars>>
nonPkVars == <<pipeVars, scrapeVars, loadVars, scanVars, catVars>>

\* Python's None and a present value, for Optional[...] fields and arguments.
None == <<>>
Some(v) == <<v>>

Range(s) == {s[i] : i \in DOMAIN s}

(***************************************************************************)
(* pipeline.py                                                             *)
(***************************************************************************)

\* The four @op functions, in the order the job body calls them.
JobOrder ==
    <<"scrape_telegram_data", "load_raw_to_postgres",
      "run_dbt_transformations", "run_yolo_enrichment">>

Ops == Range(JobOrder)

\* The run_command calls of each op body, in order.
OpCommands(op) ==
    CASE op = "scrape_telegram_data" -> <<"scraper">>
      [] op = "load_raw_to_postgres" -> <<"load_raw_to_postgres">>
      [] op = "run_dbt_transformations" -> <<"dbt_run", "dbt_test">>
      [] op = "run_yolo_enrichment" -> <<"yolo_detect", "load_yolo_to_postgres">>

AllCommands == UNION {Range(OpCommands(op)) : op \in Ops}

\* The upstream ops of an op in the job graph. Dagster derives the graph from
\* the values passed between op invocations in the job body; every op here is
\* invoked with no argument and returns None, so no op has an upstream op.
UpstreamOps(op) == {}

ReturnCodes == {0, 1}

PipelineIdle ==
    /\ opState = [op \in Ops |-> "pending"]
    /\ opCmd = [op \in Ops |-> 1]
    /\ cmdRunning = [op \in Ops |-> FALSE]
    /\ invoked = <<>>
    /\ exits = [c \in AllCommands |-> None]

\* The executor starts a step once all its upstream steps have succeeded.
StartOp(op) ==
    /\ opState[op] = "pending"
    /\ \A up \in UpstreamOps(op) : opState[up] = "success"
    /\ opState' = [opState EXCEPT ![op] = "running"]
    /\ UNCHANGED <<opCmd, cmdRunning, invoked, exits>>
    /\ UNCHANGED nonPipeVars

\* run_command up to subprocess.run: the command is started.
CommandStart(op) ==
    /\ opState[op] = "running"
    /\ ~cmdRunning[op]
    /\ opCmd[op] <= Len(OpCommands(op))
    /\ cmdRunning' = [cmdRunning EXCEPT ![op] = TRUE]
    /\ invoked' = Append(invoked, OpCommands(op)[opCmd[op]])
    /\ UNCHANGED <<opState, opCmd, exits>>
    /\ UNCHANGED nonPipeVars

\* run_command after subprocess.run: a non-zero return code raises
\* RuntimeError, which fails the op; otherwise the op body goes on, and the op
\* succeeds after its last command.
CommandExit(op, rc) ==
    /\ opState[op] = "running"
    /\ cmdRunning[op]
    /\ cmdRunning' = [cmdRunning EXCEPT ![op] = FALSE]
    /\ exits' = [exits EXCEPT ![OpCommands(op)[opCmd[op]]] = Some(rc)]
    /\ IF rc # 0
       THEN /\ opState' = [opState EXCEPT ![op] = "failure"]
            /\ UNCHANGED opCmd
       ELSE /\ opCmd' = [opCmd EXCEPT ![op] = @ + 1]
            /\ opState' = [opState EXCEPT
                  ![op] = IF opCmd[op] = Len(OpCommands(op)) THEN "success" ELSE @]
    /\ UNCHANGED invoked
    /\ UNCHANGED nonPipeVars

PipelineNext ==
    \/ \E op \in Ops : StartOp(op)
    \/ \E op \in Ops : CommandStart(op)
    \/ \E op \in Ops, rc \in ReturnCodes : CommandExit(op, rc)

(***************************************************************************)
(* src/scraper.py                                                          *)
(***************************************************************************)

\* The alphanumeric characters of the model: letters of both cases, a digit.
\* Every other character ("-", "_") is not alphanumeric.
AlnumChars == {"a", "B", "7"}

\* str.isalnum and str.lower on one character.
isalnum(char) == char \in AlnumChars
lower(char) == IF char = "B" THEN "b" ELSE char

\* str.strip(chars) for a one-character set: drop leading and trailing ch.
RECURSIVE lstrip(_, _)
lstrip(s, ch) ==
    IF s # <<>> /\ Head(s) = ch THEN lstrip(Tail(s), ch) ELSE s

RECURSIVE rstrip(_, _)
rstrip(s, ch) ==
    IF s # <<>> /\ s[Len(s)] = ch THEN rstrip(SubSeq(s, 1, Len(s) - 1), ch) ELSE s

strip(s, ch) == rstrip(lstrip(s, ch), ch)

\* "".join(char.lower() if char.isalnum() else "_" for char in value).strip("_")
slugify(value) ==
    strip([i \in DOMAIN value |-> IF isalnum(value[i]) THEN lower(value[i]) ELSE "_"],
          "_")

\* A datetime is a count of ticks; TicksPerDay of them make a calendar day.
TicksPerDay == 2

\* datetime.date(): the calendar date of a timestamp, without its time.
DateOf(t) == t \div TicksPerDay

\* datetime.isoformat(): the date and the time of day, both written out.
IsoFormat(t) == [date |-> DateOf(t), time |-> t % TicksPerDay]

\* get_partition_path(base_path, message_date, channel_name)
get_partition_path_ticks(base_path, message_date, channel_name) ==
    <<base_path, "telegram_messages", message_date, slugify(channel_name), ".json">>

get_partition_path(base_path, message_date, channel_name) ==
    <<base_path, "telegram_messages", DateOf(message_date),
      slugify(channel_name), ".json">>

\* build_message_record(message, channel_name, image_path)
build_message_record(message, channel_name, image_path) ==
    [message_id |-> message.id,
     channel_name |-> channel_name,
     message_date |-> IsoFormat(message.date[1]),
     has_media |-> message.photo,
     image_path |-> image_path]

\* DATA_LAKE_PATH and IMAGES_PATH
RawPath == "data/raw"
ImagesPath == "data/raw/images"

\* Bounds of the scraper model.
MaxMsgs == 3        \* messages yielded in one run, over all channels
MaxTime == 2        \* timestamps are 0..MaxTime

Times == 0 .. MaxTime
Optional(S) == {None} \cup {Some(v) : v \in S}

\* Two channel lists: one whose names share a slug, one whose names do not.
ChannelLists ==
    {<< <<"a", "B">>, <<"a", "b", "-">> >>, << <<"a", "B">>, <<"7">> >>}

\* --limit, --since and --until as parsed by run_scraper.
ArgSets ==
    [limit : Optional({0, MaxMsgs - 1}), since : Optional({1}),
     until : Optional({MaxTime - 1})]

\* The messages iter_messages can yield next: Telethon yields each message of
\* the history once, newest first, so identifiers decrease.
NextMessages ==
    [id : {MaxMsgs - Len(fetched)}, date : Optional(Times), photo : BOOLEAN]

ScraperIdle ==
    /\ channels = <<>>
    /\ args = [limit |-> None, since |-> None, until |-> None]
    /\ chanIdx = 1
    /\ scrapePc = "done"
    /\ failedIn = ""
    /\ fetched = <<>>
    /\ accepted = <<>>
    /\ records_by_day = <<>>
    /\ files = <<>>
    /\ filesBefore = <<>>
    /\ written = {}
    /\ imagesOnDisk = {}
    /\ fetchedTotal = 0

\* run_scraper up to the for loop, with the credentials present.
ScraperInit ==
    /\ channels \in ChannelLists
    /\ args \in ArgSets
    /\ chanIdx = 1
    /\ scrapePc = "next"
    /\ failedIn = ""
    /\ fetched = <<>>
    /\ accepted = <<>>
    /\ records_by_day = <<>>
    /\ files = <<>>
    /\ filesBefore = <<>>
    /\ written = {}
    /\ imagesOnDisk = {}
    /\ fetchedTotal = 0

channel == channels[chanIdx]

\* Skipped without the until filter.
SkippedNoUntil(message) ==
    \/ message.date = None
    \/ args.since # None /\ message.date[1] < args.since[1]

\* The loop's filters: no date, before since, after until.
Skipped(message) ==
    \/ message.date = None
    \/ args.since # None /\ message.date[1] < args.since[1]
    \/ args.until # None /\ message.date[1] > args.until[1]

\* BucketAppend assigning a fresh list instead of appending to the bucket.
BucketAppendReset(buckets, partition_path, record) ==
    IF \E i \in DOMAIN buckets : buckets[i].path = partition_path
    THEN [i \in DOMAIN buckets |->
            IF buckets[i].path = partition_path
            THEN [buckets[i] EXCEPT !.records = <<record>>]
            ELSE buckets[i]]
    ELSE Append(buckets, [path |-> partition_path, records |-> <<record>>])

\* records_by_day[partition_path].append(record) on the defaultdict(list)
BucketAppend(buckets, partition_path, record) ==
    IF \E i \in DOMAIN buckets : buckets[i].path = partition_path
    THEN [i \in DOMAIN buckets |->
            IF buckets[i].path = partition_path
            THEN [buckets[i] EXCEPT !.records = Append(@, record)]
            ELSE buckets[i]]
    ELSE Append(buckets, [path |-> partition_path, records |-> <<record>>])

\* partition_path.open("w") and json.dump(payload, file)
WriteFile(disk, partition_path, payload) ==
    [p \in DOMAIN disk \cup {partition_path} |->
        IF p = partition_path THEN payload ELSE disk[p]]

\* The flush loop of scrape_channel over the first k items of records_by_day:
\* each partition's records are written in full.
RECURSIVE Flush(_, _, _)
Flush(disk, buckets, k) ==
    IF k = 0 THEN disk
    ELSE WriteFile(Flush(disk, buckets, k - 1), buckets[k].path, buckets[k].records)

FlushedPaths(buckets, k) == {buckets[i].path : i \in 1 .. k}

\* The for loop of run_scraper reaches a channel: scrape_channel up to the
\* async for.
StartChannel ==
    /\ scrapePc = "next"
    /\ chanIdx <= Len(channels)
    /\ scrapePc' = "iter"
    /\ fetched' = <<>>
    /\ accepted' = <<>>
    /\ records_by_day' = <<>>
    /\ filesBefore' = files
    /\ written' = {}
    /\ UNCHANGED <<channels, args, chanIdx, failedIn, files, imagesOnDisk, fetchedTotal>>
    /\ UNCHANGED nonScrapeVars

\* Whether iter_messages(channel, limit=limit) can yield one more message.
CanYield ==
    /\ scrapePc = "iter"
    /\ IF args.limit = None THEN TRUE ELSE Len(fetched) < args.limit[1]
    /\ fetchedTotal < MaxMsgs

\* ProcessMessage writing the partition file as soon as a record is bucketed.
ProcessMessageEager(message) ==
    /\ CanYield
    /\ fetched' = Append(fetched, message)
    /\ fetchedTotal' = fetchedTotal + 1
    /\ IF Skipped(message)
       THEN UNCHANGED <<accepted, records_by_day, imagesOnDisk, files, written>>
       ELSE LET channel_slug == slugify(channel)
                image_path == IF message.photo
                              THEN Some(<<ImagesPath, channel_slug, message.id, ".jpg">>)
                              ELSE None
                record == build_message_record(message, channel, image_path)
                partition_path == get_partition_path(RawPath, message.date[1], channel)
                buckets == BucketAppend(records_by_day, partition_path, record)
            IN  /\ accepted' = Append(accepted, message)
                /\ imagesOnDisk' = imagesOnDisk \cup Range(image_path)
                /\ records_by_day' = buckets
                /\ files' = Flush(files, buckets, Len(buckets))
                /\ written' = FlushedPaths(buckets, Len(buckets))
    /\ UNCHANGED <<channels, args, chanIdx, scrapePc, failedIn, filesBefore>>
    /\ UNCHANGED nonScrapeVars

\* One pass of the async for body, every call succeeding.
ProcessMessage(message) ==
    /\ CanYield
    /\ fetched' = Append(fetched, message)
    /\ fetchedTotal' = fetchedTotal + 1
    /\ IF Skipped(message)
       THEN UNCHANGED <<accepted, records_by_day, imagesOnDisk>>
       ELSE LET channel_slug == slugify(channel)
                image_path == IF message.photo
                              THEN Some(<<ImagesPath, channel_slug, message.id, ".jpg">>)
                              ELSE None
                record == build_message_record(message, channel, image_path)
                partition_path == get_partition_path(RawPath, message.date[1], channel)
            IN  /\ accepted' = Append(accepted, message)
                /\ imagesOnDisk' = imagesOnDisk \cup Range(image_path)
                /\ records_by_day' = BucketAppend(records_by_day, partition_path, record)
    /\ UNCHANGED <<channels, args, chanIdx, scrapePc, failedIn, files,
                   filesBefore, written>>
    /\ UNCHANGED nonScrapeVars

\* The fetch of the next message raises: the exception leaves scrape_channel
\* and run_scraper.
FetchFails ==
    /\ CanYield
    /\ scrapePc' = "failed"
    /\ failedIn' = "iter"
    /\ UNCHANGED <<channels, args, chanIdx, fetched, accepted, records_by_day,
                   files, filesBefore, written, imagesOnDisk, fetchedTotal>>
    /\ UNCHANGED nonScrapeVars

\* message.download_media raises for a message that passed the filters.
DownloadFails(message) ==
    /\ CanYield
    /\ ~Skipped(message)
    /\ message.photo
    /\ fetched' = Append(fetched, message)
    /\ fetchedTotal' = fetchedTotal + 1
    /\ scrapePc' = "failed"
    /\ failedIn' = "iter"
    /\ UNCHANGED <<channels, args, chanIdx, accepted, records_by_day,
                   files, filesBefore, written, imagesOnDisk>>
    /\ UNCHANGED nonScrapeVars

\* The iterator is exhausted (the limit is reached or the history ends), the
\* flush loop writes every partition, scrape_channel returns and the for loop
\* of run_scraper moves on.
FinishChannel ==
    /\ scrapePc = "iter"
    /\ files' = Flush(files, records_by_day, Len(records_by_day))
    /\ written' = FlushedPaths(records_by_day, Len(records_by_day))
    /\ IF chanIdx < Len(channels)
       THEN chanIdx' = chanIdx + 1 /\ scrapePc' = "next"
       ELSE UNCHANGED chanIdx /\ scrapePc' = "done"
    /\ UNCHANGED <<channels, args, failedIn, fetched, accepted, records_by_day,
                   filesBefore, imagesOnDisk, fetchedTotal>>
    /\ UNCHANGED nonScrapeVars

\* The iterator is exhausted and the flush loop raises (mkdir or open) at its
\* item k + 1, after writing k partitions.
FlushFails(k) ==
    /\ scrapePc = "iter"
    /\ k < Len(records_by_day)
    /\ files' = Flush(files, records_by_day, k)
    /\ written' = FlushedPaths(records_by_day, k)
    /\ scrapePc' = "failed"
    /\ failedIn' = "flush"
    /\ UNCHANGED <<channels, args, chanIdx, fetched, accepted, records_by_day,
                   filesBefore, imagesOnDisk, fetchedTotal>>
    /\ UNCHANGED nonScrapeVars

ScraperNext ==
    \/ StartChannel
    \/ \E message \in NextMessages : ProcessMessage(message)
    \/ FetchFails
    \/ \E message \in NextMessages : DownloadFails(message)
    \/ FinishChannel
    \/ \E k \in 0 .. MaxMsgs : FlushFails(k)

(***************************************************************************)
(* src/load_raw_to_postgres.py and src/load_yolo_to_postgres.py            *)
(***************************************************************************)

\* Bounds of the loader model.
MaxFiles == 2       \* partition files in the data lake
MaxRecords == 2     \* records in a partition file, rows in the CSV
MaxCalls == 3       \* main() calls in one behaviour

Loaders == {"raw", "yolo"}

\* The table each loader's ensure_table declares, in schema "raw".
TableOf(loader) == IF loader = "raw" THEN "telegram_messages" ELSE "image_detections"

\* A partition file either does not parse or holds a list of n records.
FileKinds == {<<"malformed">>} \cup {<<"records", n>> : n \in 0 .. MaxRecords}

\* The file at YOLO_OUTPUT_CSV: absent, unreadable, or a header and n rows.
CsvKinds == {<<"absent">>, <<"malformed">>} \cup {<<"rows", n>> : n \in 0 .. MaxRecords}

Lakes == UNION {[1 .. n -> FileKinds] : n \in 0 .. MaxFiles}

EmptyDb ==
    [schemas |-> {}, tables |-> {},
     rows |-> [t \in {TableOf(l) : l \in Loaders} |-> <<>>]]

NoCall == [loader |-> "none", pc |-> "idle"]

LoaderFields ==
    /\ db = EmptyDb
    /\ tx = None
    /\ call = NoCall
    /\ fileIdx = 1
    /\ lastCall = [loader |-> "none", outcome |-> "none", at |-> 0]
    /\ dbBefore = EmptyDb
    /\ connects = [l \in Loaders |-> 0]
    /\ runsOk = [l \in Loaders |-> 0]
    /\ calls = 0

LoaderIdle ==
    /\ databaseUrl = FALSE
    /\ lake = <<>>
    /\ csvFile = <<"absent">>
    /\ LoaderFields

LoaderInit ==
    /\ databaseUrl \in BOOLEAN
    /\ lake \in Lakes
    /\ csvFile \in CsvKinds
    /\ LoaderFields

\* collect_json_files(base_path): the files found, as indexes into the lake.
collect_json_files == [i \in DOMAIN lake |-> i]

\* load_messages(file_path) of a file that parses: its records, in file order.
load_messages(json_file) ==
    [k \in 1 .. lake[json_file][2] |-> [file |-> json_file, idx |-> k]]

\* pd.read_csv(csv_path) of a readable file: its rows, in file order.
read_csv == [k \in 1 .. csvFile[2] |-> [idx |-> k]]

\* DataFrame.to_sql(..., if_exists="replace"): the table's rows are replaced.
to_sql_replace(view, table, rows) ==
    [view EXCEPT !.rows[table] = rows]

\* DataFrame.to_sql(table, connection, if_exists="append", method="multi")
to_sql(view, table, rows) ==
    [view EXCEPT !.rows[table] = @ \o rows]

\* CREATE SCHEMA IF NOT EXISTS raw; metadata.create_all(connection)
ensure_schema_and_table(view, table) ==
    [view EXCEPT !.schemas = @ \cup {"raw"}, !.tables = @ \cup {table}]

CanCall == call = NoCall /\ calls < MaxCalls

\* main() ends: the outcome is recorded and the loader is idle again.
Ended(loader, outcome, at) ==
    /\ call' = NoCall
    /\ lastCall' = [loader |-> loader, outcome |-> outcome, at |-> at]

\* Either main(): DATABASE_URL is not set, ValueError is raised.
ConfigError(loader) ==
    /\ CanCall
    /\ ~databaseUrl
    /\ calls' = calls + 1
    /\ dbBefore' = db
    /\ Ended(loader, "raised", 0)
    /\ UNCHANGED <<databaseUrl, lake, csvFile, db, tx, fileIdx, connects, runsOk>>
    /\ UNCHANGED nonLoadVars

\* RawNoFiles with the empty check placed after the connection is opened.
RawNoFilesAfterConnect ==
    /\ CanCall
    /\ databaseUrl
    /\ collect_json_files = <<>>
    /\ calls' = calls + 1
    /\ dbBefore' = db
    /\ connects' = [connects EXCEPT !["raw"] = @ + 1]
    /\ db' = ensure_schema_and_table(db, TableOf("raw"))
    /\ Ended("raw", "noop", 0)
    /\ UNCHANGED <<databaseUrl, lake, csvFile, tx, fileIdx, runsOk>>
    /\ UNCHANGED nonLoadVars

\* Raw loader main(): no JSON file is found; it prints and returns.
RawNoFiles ==
    /\ CanCall
    /\ databaseUrl
    /\ collect_json_files = <<>>
    /\ calls' = calls + 1
    /\ dbBefore' = db
    /\ Ended("raw", "noop", 0)
    /\ UNCHANGED <<databaseUrl, lake, csvFile, db, tx, fileIdx, connects, runsOk>>
    /\ UNCHANGED nonLoadVars

\* Detection loader main(): the CSV does not exist; it prints and returns.
YoloNoCsv ==
    /\ CanCall
    /\ databaseUrl
    /\ csvFile = <<"absent">>
    /\ calls' = calls + 1
    /\ dbBefore' = db
    /\ Ended("yolo", "noop", 0)
    /\ UNCHANGED <<databaseUrl, lake, csvFile, db, tx, fileIdx, connects, runsOk>>
    /\ UNCHANGED nonLoadVars

\* Begin on a connection that commits each DDL statement as it is executed.
BeginDdlAutocommit(loader) ==
    /\ CanCall
    /\ databaseUrl
    /\ IF loader = "raw" THEN collect_json_files # <<>> ELSE csvFile # <<"absent">>
    /\ calls' = calls + 1
    /\ dbBefore' = db
    /\ connects' = [connects EXCEPT ![loader] = @ + 1]
    /\ db' = ensure_schema_and_table(db, TableOf(loader))
    /\ tx' = Some(ensure_schema_and_table(db, TableOf(loader)))
    /\ call' = [loader |-> loader, pc |-> "loaded"]
    /\ fileIdx' = 1
    /\ UNCHANGED <<databaseUrl, lake, csvFile, lastCall, runsOk>>
    /\ UNCHANGED nonLoadVars

\* Either main() from `with engine.begin() as connection` to the end of
\* metadata.create_all: a connection and a transaction are opened, the schema
\* and the table are created inside it if they do not exist.
Begin(loader) ==
    /\ CanCall
    /\ databaseUrl
    /\ IF loader = "raw" THEN collect_json_files # <<>> ELSE csvFile # <<"absent">>
    /\ calls' = calls + 1
    /\ dbBefore' = db
    /\ connects' = [connects EXCEPT ![loader] = @ + 1]
    /\ tx' = Some(ensure_schema_and_table(db, TableOf(loader)))
    /\ call' = [loader |-> loader, pc |-> "loaded"]
    /\ fileIdx' = 1
    /\ UNCHANGED <<databaseUrl, lake, csvFile, db, lastCall, runsOk>>
    /\ UNCHANGED nonLoadVars

\* An exception leaves the `with engine.begin()` block: the transaction is
\* rolled back and the exception propagates out of main().
Rollback(loader, at) ==
    /\ tx' = None
    /\ Ended(loader, "raised", at)
    /\ UNCHANGED <<db, runsOk>>

\* The `with engine.begin()` block ends normally: the transaction commits.
Commit(loader) ==
    /\ db' = tx[1]
    /\ tx' = None
    /\ runsOk' = [runsOk EXCEPT ![loader] = @ + 1]
    /\ Ended(loader, "committed", 0)

\* RawLoadFile on a connection that commits what it has done when an
\* exception ends the block.
RawLoadFileCommitOnError ==
    /\ call = [loader |-> "raw", pc |-> "loaded"]
    /\ fileIdx <= Len(collect_json_files)
    /\ LET json_file == collect_json_files[fileIdx]
       IN  IF lake[json_file] = <<"malformed">>
           THEN /\ db' = tx[1]
                /\ tx' = None
                /\ Ended("raw", "raised", fileIdx)
                /\ UNCHANGED <<runsOk, fileIdx>>
           ELSE /\ tx' = IF load_messages(json_file) = <<>>
                         THEN tx
                         ELSE Some(to_sql(tx[1], TableOf("raw"), load_messages(json_file)))
                /\ fileIdx' = fileIdx + 1
                /\ UNCHANGED <<db, runsOk, call, lastCall>>
    /\ UNCHANGED <<databaseUrl, lake, csvFile, dbBefore, connects, calls>>
    /\ UNCHANGED nonLoadVars

\* One pass of the raw loader's for loop: json.load raises on a malformed
\* file; an empty list is skipped; otherwise the records are appended.
RawLoadFile ==
    /\ call = [loader |-> "raw", pc |-> "loaded"]
    /\ fileIdx <= Len(collect_json_files)
    /\ LET json_file == collect_json_files[fileIdx]
       IN  IF lake[json_file] = <<"malformed">>
           THEN /\ Rollback("raw", fileIdx)
                /\ UNCHANGED fileIdx
           ELSE /\ tx' = IF load_messages(json_file) = <<>>
                         THEN tx
                         ELSE Some(to_sql(tx[1], TableOf("raw"), load_messages(json_file)))
                /\ fileIdx' = fileIdx + 1
                /\ UNCHANGED <<db, runsOk, call, lastCall>>
    /\ UNCHANGED <<databaseUrl, lake, csvFile, dbBefore, connects, calls>>
    /\ UNCHANGED nonLoadVars

\* The raw loader's for loop is over and the with block ends.
RawCommit ==
    /\ call = [loader |-> "raw", pc |-> "loaded"]
    /\ fileIdx > Len(collect_json_files)
    /\ Commit("raw")
    /\ UNCHANGED <<databaseUrl, lake, csvFile, fileIdx, dbBefore, connects, calls>>
    /\ UNCHANGED nonLoadVars

\* The detection loader's pd.read_csv and df.to_sql.
YoloAppend ==
    /\ call = [loader |-> "yolo", pc |-> "loaded"]
    /\ IF csvFile = <<"malformed">>
       THEN Rollback("yolo", 1)
       ELSE /\ tx' = Some(to_sql(tx[1], TableOf("yolo"), read_csv))
            /\ call' = [loader |-> "yolo", pc |-> "appended"]
            /\ UNCHANGED <<db, runsOk, lastCall>>
    /\ UNCHANGED <<databaseUrl, lake, csvFile, fileIdx, dbBefore, connects, calls>>
    /\ UNCHANGED nonLoadVars

\* The detection loader's with block ends.
YoloCommit ==
    /\ call = [loader |-> "yolo", pc |-> "appended"]
    /\ Commit("yolo")
    /\ UNCHANGED <<databaseUrl, lake, csvFile, fileIdx, dbBefore, connects, calls>>
    /\ UNCHANGED nonLoadVars

\* df.to_sql raises a database error inside the with block (for the raw
\* loader on a file that parsed to a non-empty list): the transaction is
\* rolled back and the exception propagates.
InsertFails ==
    /\ call.pc = "loaded"
    /\ IF call.loader = "raw"
       THEN /\ fileIdx <= Len(collect_json_files)
            /\ lake[collect_json_files[fileIdx]] \notin {<<"malformed">>, <<"records", 0>>}
       ELSE csvFile # <<"malformed">>
    /\ tx' = None
    /\ call' = NoCall
    /\ lastCall' = [loader |-> call.loader, outcome |-> "db_error",
                    at |-> IF call.loader = "raw" THEN fileIdx ELSE 1]
    /\ UNCHANGED <<databaseUrl, lake, csvFile, db, fileIdx, dbBefore, connects,
                   runsOk, calls>>
    /\ UNCHANGED nonLoadVars

LoaderNext ==
    \/ \E loader \in Loaders : ConfigError(loader)
    \/ RawNoFiles
    \/ YoloNoCsv
    \/ \E loader \in Loaders : Begin(loader)
    \/ RawLoadFile
    \/ RawCommit
    \/ YoloAppend
    \/ YoloCommit
    \/ InsertFails

(***************************************************************************)
(* src/yolo_detect.py                                                      *)
(***************************************************************************)

PRODUCT_CLASSES == {"bottle", "cup", "bowl", "box", "container"}

\* categorize_image with all() in place of any().
categorize_image_all(detected_classes) ==
    LET has_person == \E i \in DOMAIN detected_classes : detected_classes[i] = "person"
        has_product ==
            \A i \in DOMAIN detected_classes : detected_classes[i] \in PRODUCT_CLASSES
    IN  IF has_person /\ has_product THEN "promotional"
        ELSE IF has_product /\ ~has_person THEN "product_display"
        ELSE IF has_person /\ ~has_product THEN "lifestyle"
        ELSE "other"

\* categorize_image(detected_classes)
categorize_image(detected_classes) ==
    LET has_person == \E i \in DOMAIN detected_classes : detected_classes[i] = "person"
        has_product ==
            \E i \in DOMAIN detected_classes : detected_classes[i] \in PRODUCT_CLASSES
    IN  IF has_person /\ has_product THEN "promotional"
        ELSE IF has_product /\ ~has_person THEN "product_display"
        ELSE IF has_person /\ ~has_product THEN "lifestyle"
        ELSE "other"

\* ",".join(classes)
RECURSIVE Join(_)
Join(classes) ==
    IF Len(classes) <= 1 THEN classes
    ELSE <<Head(classes), ",">> \o Join(Tail(classes))

\* max(confidences) if confidences else 0.0, confidences in percent
MaxConf(confidences) ==
    IF confidences = <<>> THEN 0
    ELSE CHOOSE c \in Range(confidences) : \A d \in Range(confidences) : d <= c

\* run_detection(model, image_path), the model's boxes being `boxes`
run_detection(boxes, image_path) ==
    LET classes == [i \in DOMAIN boxes |-> boxes[i].cls]
        confidences == [i \in DOMAIN boxes |-> boxes[i].conf]
    IN  [image_path |-> image_path,
         detected_classes |-> Join(classes),
         confidence_score |-> MaxConf(confidences),
         image_category |-> categorize_image(classes)]

\* Decimal digits and their values.
Digits == {"4", "2", "7"}
DigitValue(ch) == CASE ch = "4" -> 4 [] ch = "2" -> 2 [] ch = "7" -> 7

\* Whether int(stem) parses: a non-empty string of digits.
IsInt(stem) == stem # <<>> /\ \A i \in DOMAIN stem : stem[i] \in Digits

\* int(stem) of a string of digits.
RECURSIVE ParseInt(_)
ParseInt(stem) ==
    IF stem = <<>> THEN 0
    ELSE 10 * ParseInt(SubSeq(stem, 1, Len(stem) - 1)) + DigitValue(stem[Len(stem)])

\* Path.stem of an image path <<directory, stem, suffix>>
Stem(image_path) == image_path[2]

\* extract_message_id(image_path), defined when the stem is an integer
extract_message_id(image_path) == ParseInt(Stem(image_path))

\* The header line written by writer.writeheader().
Header ==
    <<"message_id", "image_path", "detected_classes", "confidence_score",
      "image_category">>

\* Bound of the scanner model.
MaxImages == 3      \* image files under IMAGES_PATH

\* The image files that can be on disk: the scraper's {message-id}.jpg in
\* two channel directories, and files that break the convention.
ImagePaths ==
    {<<"a_b", <<"4", "2">>, ".jpg">>, <<"7", <<"4", "2">>, ".jpg">>,
     <<"a_b", <<"7">>, ".jpg">>, <<"a_b", <<"x">>, ".jpg">>,
     <<"a_b", <<"4", "x">>, ".jpg">>}

\* The lists scan_images can return: distinct paths, in any order.
ImageLists ==
    UNION {{l \in [1 .. n -> ImagePaths] : \A i, j \in 1 .. n : l[i] = l[j] => i = j}
           : n \in 0 .. MaxImages}

\* The boxes model.predict can return for an image.
Boxes ==
    {<<>>,
     <<[cls |-> "person", conf |-> 40], [cls |-> "bottle", conf |-> 90]>>,
     <<[cls |-> "bottle", conf |-> 90], [cls |-> "person", conf |-> 40]>>,
     <<[cls |-> "cup", conf |-> 30]>>,
     <<[cls |-> "person", conf |-> 80], [cls |-> "person", conf |-> 20]>>,
     <<[cls |-> "dog", conf |-> 50]>>}

\* A file left by an earlier run.
StaleCsv == <<Header, [message_id |-> 7]>>

ScannerIdle ==
    /\ imageFiles = <<>>
    /\ outputCsv = None
    /\ scanPc = "done"
    /\ scanIdx = 1

ScannerInit ==
    /\ imageFiles \in ImageLists
    /\ outputCsv \in {None, Some(StaleCsv)}
    /\ scanPc = "start"
    /\ scanIdx = 1

\* load_model raises: main ends before the output file is opened.
LoadModelFails ==
    /\ scanPc = "start"
    /\ scanPc' = "failed_load"
    /\ UNCHANGED <<imageFiles, outputCsv, scanIdx>>
    /\ UNCHANGED nonScanVars

\* main up to writer.writeheader(): the model loads, the output file is
\* opened for writing (created or truncated) and the header is written.
OpenOutput ==
    /\ scanPc = "start"
    /\ scanPc' = "scanning"
    /\ outputCsv' = Some(<<Header>>)
    /\ UNCHANGED <<imageFiles, scanIdx>>
    /\ UNCHANGED nonScanVars

\* ProcessImage writing the detection's row before the message id is parsed.
ProcessImageWriteFirst(boxes) ==
    /\ scanPc = "scanning"
    /\ scanIdx <= Len(imageFiles)
    /\ LET image_path == imageFiles[scanIdx]
           result == run_detection(boxes, image_path)
       IN  IF IsInt(Stem(image_path))
           THEN /\ outputCsv' = Some(Append(outputCsv[1],
                     [message_id |-> extract_message_id(image_path)] @@ result))
                /\ scanIdx' = scanIdx + 1
                /\ UNCHANGED scanPc
           ELSE /\ outputCsv' = Some(Append(outputCsv[1], result))
                /\ scanPc' = "failed"
                /\ UNCHANGED scanIdx
    /\ UNCHANGED imageFiles
    /\ UNCHANGED nonScanVars

\* One pass of the for loop with a model that answers: run_detection, then
\* the row's dict is built, where int(stem) raises ValueError for a stem that
\* is no integer, then writer.writerow.
ProcessImage(boxes) ==
    /\ scanPc = "scanning"
    /\ scanIdx <= Len(imageFiles)
    /\ LET image_path == imageFiles[scanIdx]
           result == run_detection(boxes, image_path)
       IN  IF IsInt(Stem(image_path))
           THEN /\ outputCsv' = Some(Append(outputCsv[1],
                     [message_id |-> extract_message_id(image_path)] @@ result))
                /\ scanIdx' = scanIdx + 1
                /\ UNCHANGED scanPc
           ELSE /\ scanPc' = "failed"
                /\ UNCHANGED <<outputCsv, scanIdx>>
    /\ UNCHANGED imageFiles
    /\ UNCHANGED nonScanVars

\* model.predict raises for the image.
DetectionFails ==
    /\ scanPc = "scanning"
    /\ scanIdx <= Len(imageFiles)
    /\ scanPc' = "failed"
    /\ UNCHANGED <<imageFiles, outputCsv, scanIdx>>
    /\ UNCHANGED nonScanVars

\* The for loop is over; the file is closed.
FinishScan ==
    /\ scanPc = "scanning"
    /\ scanIdx > Len(imageFiles)
    /\ scanPc' = "done"
    /\ UNCHANGED <<imageFiles, outputCsv, scanIdx>>
    /\ UNCHANGED nonScanVars

ScannerNext ==
    \/ LoadModelFails
    \/ OpenOutput
    \/ \E boxes \in Boxes : ProcessImage(boxes)
    \/ DetectionFails
    \/ FinishScan

(***************************************************************************)
(* categorize_image as a function of its argument                          *)
(***************************************************************************)

\* Bound of the label lists.
MaxLabels == 2

Labels == PRODUCT_CLASSES \cup {"person", "dog"}
LabelLists == UNION {[1 .. n -> Labels] : n \in 0 .. MaxLabels}

CategorizeIdle ==
    /\ catInput = <<>>
    /\ catVariant = <<>>
    /\ catOut = <<"other", "other">>

CategorizeInit ==
    /\ catInput \in LabelLists
    /\ catVariant = <<>>
    /\ catOut = <<>>

\* categorize_image is called on the first list and on a second one.
Categorize(variant) ==
    /\ catOut = <<>>
    /\ catVariant' = variant
    /\ catOut' = <<categorize_image(catInput), categorize_image(variant)>>
    /\ UNCHANGED catInput
    /\ UNCHANGED nonCatVars

CategorizeNext == \E variant \in LabelLists : Categorize(variant)

(***************************************************************************)
(* The partition key of the messages of one channel                        *)
(***************************************************************************)

\* Bound of the channel names.
MaxNameLen == 4

NameChars == {"a", "B", "-", "_"}
Names == UNION {[1 .. n -> NameChars] : n \in 1 .. MaxNameLen}

\* Messages with a timestamp: identifier, text and timestamp vary.
DatedMessages == [id : {1, 2}, text : {"x", "y"}, date : Times]

PartitionIdle ==
    /\ pkChannel = <<"a">>
    /\ pkMsgs = <<>>
    /\ pkPaths = <<>>

PartitionInit ==
    /\ pkChannel \in Names
    /\ pkMsgs = <<>>
    /\ pkPaths = <<>>

\* scrape_channel's get_partition_path(raw_path, message.date, channel), for
\* a first and a second message of the channel.
ResolveKey(message) ==
    /\ Len(pkMsgs) <= 1
    /\ pkMsgs' = Append(pkMsgs, message)
    /\ pkPaths' = Append(pkPaths, get_partition_path(RawPath, message.date, pkChannel))
    /\ UNCHANGED pkChannel
    /\ UNCHANGED nonPkVars

PartitionNext == \E message \in DatedMessages : ResolveKey(message)

(***************************************************************************)
(* Specifications                                                          *)
(***************************************************************************)

InitPipeline ==
    PipelineIdle /\ ScraperIdle /\ LoaderIdle /\ ScannerIdle /\ CategorizeIdle
    /\ PartitionIdle
SpecPipeline == InitPipeline /\ [][PipelineNext]_vars

InitScraper ==
    ScraperInit /\ PipelineIdle /\ LoaderIdle /\ ScannerIdle /\ CategorizeIdle
    /\ PartitionIdle
SpecScraper == InitScraper /\ [][ScraperNext]_vars

InitLoader ==
    LoaderInit /\ PipelineIdle /\ ScraperIdle /\ ScannerIdle /\ CategorizeIdle
    /\ PartitionIdle
SpecLoader == InitLoader /\ [][LoaderNext]_vars

InitScanner ==
    ScannerInit /\ PipelineIdle /\ ScraperIdle /\ LoaderIdle /\ CategorizeIdle
    /\ PartitionIdle
SpecScanner == InitScanner /\ [][ScannerNext]_vars

InitCategorize ==
    CategorizeInit /\ PipelineIdle /\ ScraperIdle /\ LoaderIdle /\ ScannerIdle
    /\ PartitionIdle
SpecCategorize == InitCategorize /\ [][CategorizeNext]_vars

InitPartition ==
    PartitionInit /\ PipelineIdle /\ ScraperIdle /\ LoaderIdle /\ ScannerIdle
    /\ CategorizeIdle
SpecPartition == InitPartition /\ [][PartitionNext]_vars

(***************************************************************************)
(* Claims                                                                  *)
(***************************************************************************)

\* The commands of the job in the order of the job body.
PipelineCommands ==
    <<"scraper", "load_raw_to_postgres", "dbt_run", "dbt_test",
      "yolo_detect", "load_yolo_to_postgres">>

\* C1: every command that has been started was started after all the
\* commands before it in the order scrape, load, dbt run, dbt test, enrich
\* had exited with return code 0; in particular yolo_detect and
\* load_yolo_to_postgres are never started when dbt run or dbt test failed.
C1_StagesInOrderAfterSuccess ==
    \A i \in DOMAIN PipelineCommands :
        PipelineCommands[i] \in Range(invoked) =>
            \A j \in 1 .. (i - 1) : exits[PipelineCommands[j]] = Some(0)

\* The timestamp an isoformat string denotes.
FromIso(iso) == iso.date * TicksPerDay + iso.time

\* The records of the partition files the channel's scrape has written.
WrittenRecords == UNION {Range(files[p]) : p \in written}

\* C2: while a channel's iteration is running, and after it has failed in a
\* fetch or a download, the channel's scrape has written no partition file
\* and the files on disk are those the earlier channels left, unchanged.
C2_NoFileBeforeIterationEnds ==
    (scrapePc = "iter" \/ (scrapePc = "failed" /\ failedIn = "iter")) =>
        /\ written = {}
        /\ files = filesBefore

\* C2 witness: the second channel fails mid-iteration with records buffered
\* while the first channel's files are on disk.
C2_Witness ==
    /\ scrapePc = "failed"
    /\ failedIn = "iter"
    /\ chanIdx = 2
    /\ accepted # <<>>
    /\ DOMAIN files # {}
    /\ files = filesBefore

\* C4: every record the channel's scrape wrote has a timestamp within
\* [since, until] (each bound when given, inclusive), a message without a
\* timestamp gave no record, and with limit N at most N messages were
\* yielded and at most N records written.
C4_BoundsRespected ==
    /\ \A r \in WrittenRecords :
          /\ args.since # None => args.since[1] <= FromIso(r.message_date)
          /\ args.until # None => FromIso(r.message_date) <= args.until[1]
    /\ \A i \in DOMAIN fetched :
          fetched[i].date = None =>
              ~\E r \in WrittenRecords : r.message_id = fetched[i].id
    /\ args.limit # None =>
          /\ Len(fetched) <= args.limit[1]
          /\ Cardinality(WrittenRecords) <= args.limit[1]

\* C4 witness: a bounded scrape that yielded as many messages as the limit
\* allows, skipped one of them and wrote a record with a timestamp on a bound.
C4_Witness ==
    /\ args.limit # None /\ args.since # None /\ args.until # None
    /\ Len(fetched) = args.limit[1]
    /\ Len(accepted) < Len(fetched)
    /\ \E r \in WrittenRecords : FromIso(r.message_date) = args.since[1]

\* The accepted messages of one date, in iteration order.
AcceptedOn(d) ==
    LET OnDate(m) == DateOf(m.date[1]) = d IN SelectSeq(accepted, OnDate)

AcceptedDates == {DateOf(m.date[1]) : m \in Range(accepted)}

\* C5: after a successful scrape of a channel, as many partition files were
\* written as there are distinct dates among the accepted messages, each
\* file holds exactly the accepted messages of one date in iteration order,
\* and every accepted message is in exactly one file.
C5_OneFilePerDate ==
    (scrapePc \in {"next", "done"}) =>
        /\ Cardinality(written) = Cardinality(AcceptedDates)
        /\ \A p \in written :
              \E d \in AcceptedDates :
                  /\ Len(files[p]) = Len(AcceptedOn(d))
                  /\ \A i \in DOMAIN files[p] :
                        /\ files[p][i].message_id = AcceptedOn(d)[i].id
                        /\ files[p][i].message_date.date = d
        /\ \A m \in Range(accepted) :
              Cardinality({p \in written :
                  \E i \in DOMAIN files[p] : files[p][i].message_id = m.id}) = 1

\* C5 witness: a channel scraped successfully with three accepted messages
\* over two dates, giving two files.
C5_Witness ==
    /\ scrapePc \in {"next", "done"}
    /\ Len(accepted) = 3
    /\ Cardinality(AcceptedDates) = 2
    /\ Cardinality(written) = 2

\* The rows of the lake's files before position `at` of json_files, in order.
RECURSIVE RowsBefore(_)
RowsBefore(at) ==
    IF at <= 1 THEN <<>>
    ELSE RowsBefore(at - 1) \o load_messages(collect_json_files[at - 1])

\* k copies of a sequence, one after another.
RECURSIVE Repeat(_, _)
Repeat(rows, k) == IF k = 0 THEN <<>> ELSE Repeat(rows, k - 1) \o rows

\* A raw loader call has just ended with the exception of a malformed file
\* (outcome "raised" at a position of the for loop).
RawAborted ==
    /\ call = NoCall
    /\ lastCall.loader = "raw"
    /\ lastCall.outcome = "raised"
    /\ lastCall.at >= 1

\* C3 as stated: after the raw loader aborts on a malformed file, the rows
\* of the files loaded earlier in that run are in the raw message table.
C3_EarlierRowsRemain ==
    RawAborted =>
        db.rows[TableOf("raw")] =
            dbBefore.rows[TableOf("raw")] \o RowsBefore(lastCall.at)

\* C3 amended: after the raw loader aborts on a malformed file, the error
\* has propagated and the database is as it was before the run: the rows of
\* the files loaded earlier in the run are rolled back with the schema and
\* table creation, and no transaction stays open.
C3_AbortRollsBackRun ==
    RawAborted => (db = dbBefore /\ tx = None)

\* C3 witness: the second file is malformed and the first held records.
C3_Witness ==
    /\ RawAborted
    /\ lastCall.at = 2
    /\ RowsBefore(2) # <<>>
    /\ db.rows[TableOf("raw")] = <<>>

\* C8: the raw message table holds, for k committed raw loader runs, k
\* copies of the lake's records (files in json_files order, records in file
\* order), and the detection table k copies of the CSV's rows for k
\* committed detection loader runs.
C8_AppendOnly ==
    /\ IF runsOk["raw"] = 0
       THEN db.rows[TableOf("raw")] = <<>>
       ELSE db.rows[TableOf("raw")] = Repeat(RowsBefore(Len(lake) + 1), runsOk["raw"])
    /\ IF runsOk["yolo"] = 0
       THEN db.rows[TableOf("yolo")] = <<>>
       ELSE db.rows[TableOf("yolo")] = Repeat(read_csv, runsOk["yolo"])

\* C8 witness: two committed runs over two files with records doubled the
\* row count.
C8_Witness ==
    /\ runsOk["raw"] = 2
    /\ Len(lake) = 2
    /\ Len(RowsBefore(3)) >= 2
    /\ Len(db.rows[TableOf("raw")]) = 2 * Len(RowsBefore(3))

\* What a loader with empty input has done, with DATABASE_URL set: it opened
\* no connection, its table was never created, each of its calls returned
\* normally and left the committed database as it found it.
NoOpLoader(loader) ==
    /\ connects[loader] = 0
    /\ call.loader # loader
    /\ TableOf(loader) \notin db.tables
    /\ lastCall.loader = loader =>
          /\ lastCall.outcome = "noop"
          /\ call = NoCall => db = dbBefore

\* C10: with DATABASE_URL set, the raw loader with zero partition files and
\* the detection loader with no CSV file return normally without opening a
\* connection or creating a schema or table, leaving the database unchanged.
C10_EmptyInputNoOp ==
    /\ (databaseUrl /\ lake = <<>>) => NoOpLoader("raw")
    /\ (databaseUrl /\ csvFile = <<"absent">>) => NoOpLoader("yolo")

\* C10 witness: the raw loader found no file and returned, after the
\* detection loader had committed rows.
C10_Witness ==
    /\ call = NoCall
    /\ lastCall = [loader |-> "raw", outcome |-> "noop", at |-> 0]
    /\ lake = <<>>
    /\ db.rows[TableOf("yolo")] # <<>>
    /\ db = dbBefore

\* The category the four-quadrant table gives a set of labels.
Quadrant(labelSet) ==
    LET P == "person" \in labelSet
        Q == labelSet \cap {"bottle", "cup", "bowl", "box", "container"} # {}
    IN  CASE P /\ Q -> "promotional"
          [] Q /\ ~P -> "product_display"
          [] P /\ ~Q -> "lifestyle"
          [] ~P /\ ~Q -> "other"

\* C6: categorize_image returns, for every list of labels, the category the
\* four-quadrant table gives the list's set of labels, so two lists with the
\* same set of labels (in any order, with any repetitions) get the same
\* category, and the empty list gets "other".
C6_CategoryOfLabelSet ==
    catOut # <<>> =>
        /\ catOut[1] = Quadrant(Range(catInput))
        /\ catOut[2] = Quadrant(Range(catVariant))
        /\ Range(catInput) = Range(catVariant) => catOut[1] = catOut[2]
        /\ catInput = <<>> => catOut[1] = "other"

\* C6 witness: two different lists with the same labels, a person and a
\* product, one of them with a repetition or another order.
C6_Witness ==
    /\ catOut = <<"promotional", "promotional">>
    /\ catInput # catVariant
    /\ Range(catInput) = Range(catVariant)

\* The positions of the alphanumeric characters of a name.
AlnumAt(name) == {i \in DOMAIN name : isalnum(name[i])}
FirstOf(S) == CHOOSE i \in S : \A j \in S : i <= j
LastOf(S) == CHOOSE i \in S : \A j \in S : j <= i

\* The name from its first to its last alphanumeric character, each
\* alphanumeric character lower-cased and each other character replaced by
\* one separator; empty when the name has no alphanumeric character.
SlugPerCharacter(name) ==
    IF AlnumAt(name) = {} THEN <<>>
    ELSE LET first == FirstOf(AlnumAt(name))
             last == LastOf(AlnumAt(name))
         IN  [k \in 1 .. (last - first + 1) |->
                 IF isalnum(name[first + k - 1])
                 THEN lower(name[first + k - 1]) ELSE "_"]

\* The name lower-cased with every maximal run of non-alphanumeric
\* characters collapsed to one separator.
RECURSIVE CollapseRuns(_)
CollapseRuns(name) ==
    IF name = <<>> THEN <<>>
    ELSE LET rest == CollapseRuns(Tail(name))
         IN  IF isalnum(Head(name)) THEN <<lower(Head(name))>> \o rest
             ELSE IF rest # <<>> /\ Head(rest) = "_" THEN rest
             ELSE <<"_">> \o rest

SlugCollapsed(name) == strip(CollapseRuns(name), "_")

\* Two resolved messages of the same date have the same key.
SameDateSameKey ==
    \A i, j \in DOMAIN pkPaths :
        DateOf(pkMsgs[i].date) = DateOf(pkMsgs[j].date) => pkPaths[i] = pkPaths[j]

\* The key with a given slug.
KeyWithSlug(i, slug) ==
    pkPaths[i] =
        <<RawPath, "telegram_messages", DateOf(pkMsgs[i].date), slug, ".json">>

\* C7 as stated: the key is root/telegram_messages/date/slug.json with the
\* slug collapsing every run of non-alphanumeric characters to one
\* separator, and is the same for messages sharing date and channel.
C7_KeyWithCollapsedSlug ==
    /\ \A i \in DOMAIN pkPaths : KeyWithSlug(i, SlugCollapsed(pkChannel))
    /\ SameDateSameKey

\* C7 amended: the key is root/telegram_messages/date/slug.json where date is
\* the calendar date of the timestamp and slug is the channel name
\* lower-cased with every non-alphanumeric character replaced by one
\* separator (runs are not collapsed) and leading and trailing separators
\* trimmed; it is the same for messages sharing date and channel, whatever
\* their identifier, text or time of day.
C7_KeyWithPerCharacterSlug ==
    /\ \A i \in DOMAIN pkPaths : KeyWithSlug(i, SlugPerCharacter(pkChannel))
    /\ SameDateSameKey

\* C7 witness: two messages of one date that differ in identifier, text and
\* time of day get the same key, in a channel whose name has a run of two
\* non-alphanumeric characters between alphanumeric ones.
C7_Witness ==
    /\ Len(pkPaths) = 2
    /\ pkChannel = <<"B", "-", "_", "a">>
    /\ pkMsgs[1].id # pkMsgs[2].id
    /\ pkMsgs[1].text # pkMsgs[2].text
    /\ pkMsgs[1].date # pkMsgs[2].date
    /\ pkPaths[1] = pkPaths[2]
    /\ pkPaths[1][4] = <<"b", "_", "_", "a">>

\* The output file holds the header and one row for each of the first n
\* images, in order, each with the message id its file name denotes.
HoldsRowsOfFirst(n) ==
    /\ outputCsv # None
    /\ Len(outputCsv[1]) = n + 1
    /\ outputCsv[1][1] = Header
    /\ \A i \in 1 .. n :
          /\ outputCsv[1][i + 1].image_path = imageFiles[i]
          /\ IsInt(imageFiles[i][2])
          /\ outputCsv[1][i + 1].message_id = ParseInt(imageFiles[i][2])

AfterAllWrites(loader, before) ==
    [schemas |-> before.schemas \cup {"raw"},
     tables |-> before.tables \cup {TableOf(loader)},
     rows |-> [before.rows EXCEPT ![TableOf(loader)] =
                 @ \o (IF loader = "raw" THEN RowsBefore(Len(lake) + 1) ELSE read_csv)]]

\* C11: a loader call opens at most one connection; while the call is in
\* its with block one transaction is open and none of its writes is
\* committed; when the call has returned normally the schema and table
\* creation and all the rows of its input are committed together; when it
\* has ended with an exception the committed database is as it was before
\* the call; no transaction stays open after the call.
C11_CommitOrRollbackAsUnit ==
    /\ connects["raw"] + connects["yolo"] <= calls
    /\ call # NoCall => (tx # None /\ db = dbBefore)
    /\ call = NoCall =>
          /\ tx = None
          /\ lastCall.outcome = "committed" =>
                db = AfterAllWrites(lastCall.loader, dbBefore)
          /\ lastCall.outcome \in {"raised", "db_error"} => db = dbBefore

\* C11 witness: a raw loader call that had created its table and appended
\* the first file's rows ended with a database error at its second file,
\* and the committed database is the one the detection loader had left.
C11_Witness ==
    /\ call = NoCall
    /\ lastCall = [loader |-> "raw", outcome |-> "db_error", at |-> 2]
    /\ RowsBefore(2) # <<>>
    /\ dbBefore.rows[TableOf("yolo")] # <<>>
    /\ TableOf("raw") \notin db.tables
    /\ db = dbBefore

====
